---- MODULE Spec2Model ----
(***************************************************************************)
(* The session-scoped real-time relay of server.js: Socket.IO connections, *)
(* the rooms they join, and the re-broadcast of caption-update,            *)
(* chat-message and summary-update events to the room named by the         *)
(* payload's sessionId.                                                    *)
(***************************************************************************)
EXTENDS Integers, Sequences, FiniteSets, TLC

\* ---------------------------------------------------------------- bounds
MaxConns == 2
MaxSessions == 2
MaxEvents == 3
MaxUsers == 2
MaxSlots == 2
MaxRequests == 3

Conns == 1..MaxConns
SessionIds == 1..MaxSessions
UserIds == 1..MaxUsers
Slots == 1..MaxSlots

\* ------------------------------------------------------------ room names
\* A room name is whatever value the client sends; a session id names a
\* session room, and every socket is put in the room named by its own id.
SessionRoom(s) == <<"session", s>>
SocketRoom(c) == <<"socket", c>>
Undefined == <<"undefined", 0>>

SessionRooms == {SessionRoom(s) : s \in SessionIds}

\* --------------------------------------------------------------- payloads
\* What a client can put after the event name: nothing, null, a primitive,
\* an object without sessionId, an object with a sessionId.
NoPayload == [kind |-> "undefined", sessionId |-> Undefined, text |-> ""]
NullPayload == [kind |-> "null", sessionId |-> Undefined, text |-> ""]
StringPayload == [kind |-> "string", sessionId |-> Undefined, text |-> "hi"]
TextPayload == [kind |-> "object", sessionId |-> Undefined, text |-> "hi"]
RoomPayload(r) == [kind |-> "object", sessionId |-> r, text |-> "hi"]

\* The payloads tried: a client names session rooms in sessionId.
Payloads ==
    {NoPayload, NullPayload, StringPayload, TextPayload}
        \cup {RoomPayload(r) : r \in SessionRooms}

\* The session table's status column, and "absent" for an id with no row.
Statuses == {"active", "ended", "paused"}

\* The session tables tried: an empty table, and one whose first session is
\* active and whose other sessions are ended or paused.
EmptyTable == [s \in SessionIds |-> "absent"]
MixedTable ==
    [s \in SessionIds |->
        IF s = 1 THEN "active" ELSE IF s % 2 = 0 THEN "ended" ELSE "paused"]
SessionTables == {EmptyTable, MixedTable}

RelayNames == {"caption-update", "chat-message", "summary-update"}

VARIABLES
    alive,      \* the server process is running
    sessions,   \* sessions table: session id -> status, or "absent"
    status,     \* connection -> "new" | "connected" | "disconnected"
    rooms,      \* connection -> the rooms its socket is in (adapter.sids)
    inbox,      \* connection -> the events the server emitted to it, in order
    emitted,    \* how many relayed events the server has handled
    last        \* the inbound event handled last: its name, its socket, the
                \* session id the client sent, the sockets it was sent on to
                \* and, for a relayed event, the payload the client sent

vars == <<alive, sessions, status, rooms, inbox, emitted, last>>

\* The REST API's state: the other tables of schema.sql, the join requests
\* in flight, and the response sent last.
VARIABLES
    users,          \* users table: the ids with a row
    tokens,         \* the users holding a token issued by /login or /register
    host,           \* sessions.host_id: session id -> user id, 0 with no row
    participants,   \* session_participants: <<session, user>> -> number of rows
    transcripts,    \* the sessions with rows in transcripts
    summaries,      \* the sessions with rows in summaries
    slots,          \* the POST /:id/join requests in flight
    served,         \* the number of requests received
    resp            \* the HTTP response sent last

apiVars ==
    <<users, tokens, host, participants, transcripts, summaries, slots,
      served, resp>>
relayVars == <<alive, status, rooms, inbox, emitted, last>>

\* The modules of the backend that require one another, and the order in
\* which server.js mounts the routers.
Routers == {"auth", "sessions", "transcripts"}
Modules == Routers \cup {"server"}
RouteOrder == <<"auth", "sessions", "transcripts">>

\* Node's module loader while the process starts.
VARIABLES
    stack,          \* the modules being executed, the innermost last
    pc,             \* module -> the statements of it executed so far
    exportsOf,      \* module -> what require() of it returns by now
    bound           \* router -> the value of its constant `pool`

loadVars == <<stack, pc, exportsOf, bound>>

\* The Dashboard of the browser behind each connection.
VARIABLES
    viewing,        \* connection -> currentSession's id, 0 for the session list
    panel           \* connection -> the sessionId of each message in ChatPanel

clientVars == <<viewing, panel>>
\* what a REST request leaves alone besides the relay
otherVars == <<loadVars, clientVars>>
\* what a socket event leaves alone besides the relay
restVars == <<apiVars, loadVars, clientVars>>
allVars == <<vars, apiVars, loadVars, clientVars>>

NoEvent == [op |-> "none", conn |-> 0, room |-> Undefined, already |-> FALSE,
            to |-> {}, data |-> NoPayload]

\* adapter.rooms: the sockets in room r
Members(r) == {c \in Conns : r \in rooms[c]}

Init ==
    /\ alive = TRUE
    /\ sessions \in SessionTables
    /\ status = [c \in Conns |-> "new"]
    /\ rooms = [c \in Conns |-> {}]
    /\ inbox = [c \in Conns |-> <<>>]
    /\ emitted = 0
    /\ last = NoEvent
    \* the other tables when the server starts: one registered user, who
    \* hosts the sessions that exist; no request received yet
    /\ users = {1}
    /\ tokens = {}
    /\ host = [s \in SessionIds |-> IF sessions[s] = "absent" THEN 0 ELSE 1]
    /\ participants = [p \in SessionIds \X UserIds |-> 0]
    /\ transcripts = {}
    /\ summaries = {}
    /\ slots = [r \in Slots |->
                    [pc |-> "idle", userId |-> [type |-> "string", val |-> 0],
                     sess |-> 0]]
    /\ served = 0
    /\ resp = [route |-> "none", kind |-> "none", id |-> 0, sess |-> 0,
               code |-> 0, data |-> FALSE, ran |-> FALSE]
    \* the process before node runs server.js: no module in the cache
    /\ stack = <<>>
    /\ pc = [m \in Modules |-> 0]
    /\ exportsOf = [m \in Modules |-> "none"]
    /\ bound = [r \in Routers |-> "unbound"]
    \* every Dashboard shows the session list
    /\ viewing = [c \in Conns |-> 0]
    /\ panel = [c \in Conns |-> <<>>]

\* ------------------------------------------------- Socket.IO operations
\* socket.join(room): the socket's room set with room added (a Set)
JoinReplacing(cur, r) == (cur \ SessionRooms) \cup {r}
JoinToggle(cur, r) == IF r \in cur THEN cur \ {r} ELSE cur \cup {r}
SocketJoin(cur, r) == cur \cup {r}

\* the socket's rooms once its transport has closed (Socket.IO leaves all)
KeepRooms(cur) == cur
LeaveAll(cur) == {}

\* data.sessionId throws a TypeError when data is undefined or null
Throws(data) == data.kind \in {"undefined", "null"}

\* data.sessionId: the property of an object, undefined on a primitive
WrongProperty(data) == Undefined
SessionIdOf(data) == IF data.kind = "object" THEN data.sessionId ELSE Undefined

\* socket.to(r).emit(...): the sockets in room r, the sender excepted
BroadcastToAll(c, r) == Members(r)
BroadcastTargets(c, r) == Members(r) \ {c}

\* one outbound packet, with the socket it came from and its place in the
\* order in which the server handled the relayed events
PacketOfText(name, data, c) ==
    [name |-> "message", data |-> [data EXCEPT !.kind = "string"],
     from |-> c, seq |-> emitted + 1]
Packet(name, data, c) ==
    [name |-> name, data |-> data, from |-> c, seq |-> emitted + 1]

\* emit on each target socket: the packet goes last on its transport
DeliverFirst(to, pkt) ==
    [d \in Conns |-> IF d \in to THEN <<pkt>> \o inbox[d] ELSE inbox[d]]
Deliver(to, pkt) ==
    [d \in Conns |-> IF d \in to THEN Append(inbox[d], pkt) ELSE inbox[d]]

\* ------------------------------------------------------------- handlers
\* io.on('connection'): a new socket, in the room named by its own id
Connection(c) ==
    /\ alive
    /\ status[c] = "new"
    /\ status' = [status EXCEPT ![c] = "connected"]
    /\ rooms' = [rooms EXCEPT ![c] = {SocketRoom(c)}]
    /\ last' = [NoEvent EXCEPT !.op = "connection", !.conn = c]
    /\ UNCHANGED <<restVars, alive, sessions, inbox, emitted>>

\* socket.on('disconnect'): the handler logs; Socket.IO has emptied the rooms
Disconnect(c) ==
    /\ alive
    /\ status[c] = "connected"
    /\ status' = [status EXCEPT ![c] = "disconnected"]
    /\ rooms' = [rooms EXCEPT ![c] = LeaveAll(rooms[c])]
    /\ last' = [NoEvent EXCEPT !.op = "disconnect", !.conn = c]
    /\ UNCHANGED <<restVars, alive, sessions, inbox, emitted>>

\* socket.on('join-session', sessionId): socket.join(sessionId), unconditionally
JoinSession(c, s) ==
    /\ alive
    /\ status[c] = "connected"
    /\ rooms' = [rooms EXCEPT ![c] = SocketJoin(rooms[c], SessionRoom(s))]
    /\ last' = [NoEvent EXCEPT !.op = "join-session", !.conn = c,
                               !.room = SessionRoom(s),
                               !.already = SessionRoom(s) \in rooms[c]]
    /\ UNCHANGED <<restVars, alive, sessions, status, inbox, emitted>>

\* An event name the server registers no listener for: nothing runs.
Unhandled(c, name, r) ==
    /\ alive
    /\ status[c] = "connected"
    /\ last' = [NoEvent EXCEPT !.op = name, !.conn = c, !.room = r]
    /\ UNCHANGED <<restVars, alive, sessions, status, rooms, inbox, emitted>>

\* Dashboard.leaveSession emits 'leave-session'; server.js has no listener
LeaveSession(c, s) == Unhandled(c, "leave-session", SessionRoom(s))

\* ChatPanel.handleTyping emits 'typing'; server.js has no listener
Typing(c, data) == Unhandled(c, "typing", data.sessionId)

\* CaptionsPanel recognition.onresult with a final transcript, on a client
\* that has joined session s: the caption is added to the panel's own list,
\* and nothing is emitted on the socket.
FinalTranscript(c, s) ==
    /\ alive
    /\ status[c] = "connected"
    /\ SessionRoom(s) \in rooms[c]
    /\ last' = [NoEvent EXCEPT !.op = "final-transcript", !.conn = c,
                               !.room = SessionRoom(s)]
    /\ UNCHANGED <<restVars, alive, sessions, status, rooms, inbox, emitted>>

\* An exception thrown in a listener is caught nowhere: the process exits,
\* and with it every socket and every room.
Crash(c, name, data) ==
    /\ alive' = FALSE
    /\ status' = [d \in Conns |->
                    IF status[d] = "connected" THEN "disconnected" ELSE status[d]]
    /\ rooms' = [d \in Conns |-> {}]
    /\ emitted' = emitted + 1
    /\ last' = [NoEvent EXCEPT !.op = name, !.conn = c]
    /\ UNCHANGED <<restVars, sessions, inbox>>

\* ChatPanel's socket.on('chat-message', data => setMessages([...prev, data])),
\* registered while the panel is mounted: the panels after the delivery
Shown(to, name, data) ==
    [d \in Conns |->
        IF d \in to /\ name = "chat-message" /\ viewing[d] # 0
        THEN Append(panel[d], data.sessionId)
        ELSE panel[d]]

\* socket.on(name, data => socket.to(data.sessionId).emit(name, data)); own
\* holds the sender when its ChatPanel has appended the message itself
RelayFrom(c, name, data, own) ==
    /\ alive
    /\ status[c] = "connected"
    /\ emitted < MaxEvents
    /\ IF Throws(data)
         THEN Crash(c, name, data)
         ELSE LET r == SessionIdOf(data)
                  to == BroadcastTargets(c, r)
              IN  /\ inbox' = Deliver(to, Packet(name, data, c))
                  /\ panel' = Shown(to \cup own, name, data)
                  /\ emitted' = emitted + 1
                  /\ last' = [NoEvent EXCEPT !.op = name, !.conn = c,
                                             !.room = data.sessionId, !.to = to,
                                             !.data = data]
                  /\ UNCHANGED <<apiVars, loadVars, viewing, alive, sessions,
                                 status, rooms>>

Relay(c, name, data) == RelayFrom(c, name, data, {})

CaptionUpdate(c, data) == Relay(c, "caption-update", data)
ChatMessage(c, data) == Relay(c, "chat-message", data)
SummaryUpdate(c, data) == Relay(c, "summary-update", data)

Next ==
    \/ \E c \in Conns : Connection(c)
    \/ \E c \in Conns : Disconnect(c)
    \/ \E c \in Conns, s \in SessionIds : JoinSession(c, s)
    \/ \E c \in Conns, s \in SessionIds : LeaveSession(c, s)
    \/ \E c \in Conns, data \in Payloads : Typing(c, data)
    \/ \E c \in Conns, s \in SessionIds : FinalTranscript(c, s)
    \/ \E c \in Conns, data \in Payloads : CaptionUpdate(c, data)
    \/ \E c \in Conns, data \in Payloads : ChatMessage(c, data)
    \/ \E c \in Conns, data \in Payloads : SummaryUpdate(c, data)

\* ============================================================= REST API
\* --------------------------------------------------------- values and rows
\* A JavaScript value as the routes see it: its type and its content. The
\* string with val n > 0 is the decimal text of n; the string with val 0 is a
\* text that is no number (a Clerk user id, "user_2ab...").
JsNumber(n) == [type |-> "number", val |-> n]
JsString(n) == [type |-> "string", val |-> n]

\* What a request carries in its Authorization header.
NoToken == [kind |-> "none", id |-> 0]
BadToken == [kind |-> "garbage", id |-> 0]
\* jwt.sign({ userId, email, role }, JWT_SECRET): the token of /login, /register
LocalToken(u) == [kind |-> "local", id |-> u]
\* a session token issued by Clerk whose payload.sub is the string JsString(n)
ClerkToken(n) == [kind |-> "clerk", id |-> n]
Tokens ==
    {NoToken, BadToken} \cup {LocalToken(u) : u \in tokens}
        \cup {ClerkToken(n) : n \in 0..MaxUsers}

Pairs == SessionIds \X UserIds
NoRows == [p \in Pairs |-> 0]
IdleSlot == [pc |-> "idle", userId |-> JsString(0), sess |-> 0]
NoResp ==
    [route |-> "none", kind |-> "none", id |-> 0, sess |-> 0, code |-> 0,
     data |-> FALSE, ran |-> FALSE]

\* ------------------------------------------------------------ middleware
VerifiesEverything(tok) == tok.kind # "none"
\* clerkVerifyToken(token): resolves for a token Clerk issued, throws otherwise
ClerkVerifies(tok) == tok.kind = "clerk"

\* verifyToken of middleware/auth.js: the status it answers itself, or code 0
\* with req.user.userId when it calls next().
VerifyToken(tok) ==
    IF tok.kind = "none" THEN [code |-> 401, userId |-> JsString(0)]
    ELSE IF ClerkVerifies(tok) THEN [code |-> 0, userId |-> JsString(tok.id)]
    ELSE [code |-> 400, userId |-> JsString(0)]

\* ------------------------------------------------------------- database
\* A query parameter bound to an INTEGER column: node-postgres sends the text,
\* PostgreSQL rejects a text that is no integer (the query throws).
PgError(v) == v.type = "string" /\ v.val = 0
PgInteger(v) == v.val

\* a !== b is ~StrictEquals(a, b): equal only with the same type
StrictEquals(a, b) == a.type = b.type /\ a.val = b.val

Exists(s) == sessions[s] # "absent"
RowsOf(s, u) == IF u \in UserIds THEN participants[<<s, u>>] ELSE 0
\* accessQuery: the session's row when u hosts it or has a participant row
HasAccess(s, u) == Exists(s) /\ (host[s] = u \/ RowsOf(s, u) > 0)

\* INSERT INTO session_participants: the UNIQUE(session_id, user_id) and the
\* REFERENCES constraints of schema.sql
InsertParticipant(s, u) ==
    IF u \notin users \/ ~Exists(s) THEN "foreign_key"
    ELSE IF RowsOf(s, u) > 0 THEN "unique"
    ELSE "ok"

Respond(route, tok, s, code, data, ran) ==
    resp' = [route |-> route, kind |-> tok.kind, id |-> tok.id, sess |-> s,
             code |-> code, data |-> data, ran |-> ran]

db == <<sessions, users, tokens, host, participants, transcripts, summaries>>

\* The server receives one more request.
Receive == served < MaxRequests /\ served' = served + 1

\* --------------------------------------------------------------- routes
\* verifyToken answering the request itself: the handler is not called.
Rejected(route, tok, s) ==
    /\ Respond(route, tok, s, VerifyToken(tok).code, FALSE, FALSE)
    /\ UNCHANGED <<db, slots>>

\* POST /api/auth/register with the e-mail of user u
Register(u) ==
    /\ Receive
    /\ UNCHANGED <<relayVars, otherVars, sessions, host, participants, transcripts,
                   summaries, slots>>
    /\ IF u \in users
       THEN /\ Respond("register", NoToken, 0, 400, FALSE, TRUE)
            /\ UNCHANGED <<users, tokens>>
       ELSE /\ u = Cardinality(users) + 1
            /\ users' = users \cup {u}
            /\ tokens' = tokens \cup {u}
            /\ Respond("register", LocalToken(u), 0, 201, FALSE, TRUE)

\* POST /api/auth/login with the e-mail of user u and a right or wrong password
Login(u, isValidPassword) ==
    /\ Receive
    /\ UNCHANGED <<relayVars, otherVars, sessions, users, host, participants,
                   transcripts, summaries, slots>>
    /\ IF u \notin users \/ ~isValidPassword
       THEN /\ Respond("login", NoToken, 0, 401, FALSE, TRUE)
            /\ UNCHANGED tokens
       ELSE /\ tokens' = tokens \cup {u}
            /\ Respond("login", LocalToken(u), 0, 200, FALSE, TRUE)

NextSessionId == Cardinality({s \in SessionIds : Exists(s)}) + 1

\* POST /api/sessions
CreateSession(tok) ==
    /\ UNCHANGED <<relayVars, otherVars>>
    /\ Receive
    /\ IF VerifyToken(tok).code # 0 THEN Rejected("POST /", tok, 0)
       ELSE LET hostId == VerifyToken(tok).userId IN
            /\ UNCHANGED <<users, tokens, participants, transcripts,
                           summaries, slots>>
            /\ IF PgError(hostId) \/ PgInteger(hostId) \notin users
               THEN /\ Respond("POST /", tok, 0, 500, FALSE, TRUE)
                    /\ UNCHANGED <<sessions, host>>
               ELSE /\ NextSessionId \in SessionIds
                    /\ sessions' = [sessions EXCEPT ![NextSessionId] = "active"]
                    /\ host' = [host EXCEPT ![NextSessionId] = PgInteger(hostId)]
                    /\ Respond("POST /", tok, NextSessionId, 201, TRUE, TRUE)

\* A handler that checks access and then only reads: GET /api/sessions/:id
\* (denied is 404), GET /api/transcripts/session/:sessionId and
\* GET /api/transcripts/session/:sessionId/summaries (denied is 403).
ReadWithAccess(route, tok, s, denied, found) ==
    /\ UNCHANGED <<relayVars, otherVars>>
    /\ Receive
    /\ IF VerifyToken(tok).code # 0 THEN Rejected(route, tok, s)
       ELSE LET userId == VerifyToken(tok).userId IN
            /\ UNCHANGED <<db, slots>>
            /\ IF PgError(userId) THEN Respond(route, tok, s, 500, FALSE, TRUE)
               ELSE IF ~HasAccess(s, PgInteger(userId))
                    THEN Respond(route, tok, s, denied, FALSE, TRUE)
               ELSE Respond(route, tok, s, 200, found, TRUE)

GetSession(tok, s) == ReadWithAccess("GET /:id", tok, s, 404, TRUE)
GetTranscripts(tok, s) ==
    ReadWithAccess("GET transcripts", tok, s, 403, s \in transcripts)
GetSummaries(tok, s) ==
    ReadWithAccess("GET summaries", tok, s, 403, s \in summaries)

\* GET /api/sessions/:id/participants: the rows of the session, the id, name
\* and e-mail of each participant
GetParticipants(tok, s) ==
    /\ UNCHANGED <<relayVars, otherVars>>
    /\ Receive
    /\ IF VerifyToken(tok).code # 0 THEN Rejected("GET participants", tok, s)
       ELSE /\ UNCHANGED <<db, slots>>
            /\ Respond("GET participants", tok, s, 200,
                       \E u \in UserIds : RowsOf(s, u) > 0, TRUE)

\* POST /api/transcripts
PostTranscript(tok, s) ==
    /\ UNCHANGED <<relayVars, otherVars>>
    /\ Receive
    /\ IF VerifyToken(tok).code # 0 THEN Rejected("POST transcript", tok, s)
       ELSE LET userId == VerifyToken(tok).userId IN
            /\ UNCHANGED <<sessions, users, tokens, host, participants,
                           summaries, slots>>
            /\ IF PgError(userId)
               THEN /\ Respond("POST transcript", tok, s, 500, FALSE, TRUE)
                    /\ UNCHANGED transcripts
               ELSE IF ~HasAccess(s, PgInteger(userId))
                    THEN /\ Respond("POST transcript", tok, s, 403, FALSE, TRUE)
                         /\ UNCHANGED transcripts
               ELSE /\ transcripts' = transcripts \cup {s}
                    /\ Respond("POST transcript", tok, s, 201, TRUE, TRUE)

\* POST /api/transcripts/summaries; generated is whether
\* geminiService.generateSummary returned (it throws when the API call fails)
PostSummary(tok, s, generated) ==
    /\ UNCHANGED <<relayVars, otherVars>>
    /\ Receive
    /\ IF VerifyToken(tok).code # 0 THEN Rejected("POST summary", tok, s)
       ELSE LET userId == VerifyToken(tok).userId IN
            /\ UNCHANGED <<sessions, users, tokens, host, participants,
                           transcripts, slots>>
            /\ IF PgError(userId) \/
                  (HasAccess(s, PgInteger(userId)) /\ ~generated)
               THEN /\ Respond("POST summary", tok, s, 500, FALSE, TRUE)
                    /\ UNCHANGED summaries
               ELSE IF ~HasAccess(s, PgInteger(userId))
                    THEN /\ Respond("POST summary", tok, s, 403, FALSE, TRUE)
                         /\ UNCHANGED summaries
               ELSE /\ summaries' = summaries \cup {s}
                    /\ Respond("POST summary", tok, s, 201, TRUE, TRUE)

\* POST /api/sessions/:id/leave
LeaveApi(tok, s) ==
    /\ UNCHANGED <<relayVars, otherVars>>
    /\ Receive
    /\ IF VerifyToken(tok).code # 0 THEN Rejected("POST leave", tok, s)
       ELSE LET userId == VerifyToken(tok).userId IN
            /\ UNCHANGED <<sessions, users, tokens, host, transcripts,
                           summaries, slots>>
            /\ IF PgError(userId)
               THEN /\ Respond("POST leave", tok, s, 500, FALSE, TRUE)
                    /\ UNCHANGED participants
               ELSE /\ participants' =
                        [p \in Pairs |->
                            IF p = <<s, PgInteger(userId)>> THEN 0
                            ELSE participants[p]]
                    /\ Respond("POST leave", tok, s, 200, FALSE, TRUE)

\* PATCH /api/sessions/:id/status with body { status: st }
UpdateStatus(tok, s, st) ==
    /\ UNCHANGED <<relayVars, otherVars>>
    /\ Receive
    /\ IF VerifyToken(tok).code # 0 THEN Rejected("PATCH status", tok, s)
       ELSE LET userId == VerifyToken(tok).userId IN
            /\ UNCHANGED <<users, tokens, host, participants, transcripts,
                           summaries, slots>>
            /\ IF ~Exists(s) \/ ~StrictEquals(JsNumber(host[s]), userId)
               THEN /\ Respond("PATCH status", tok, s, 403, FALSE, TRUE)
                    /\ UNCHANGED sessions
               ELSE /\ sessions' = [sessions EXCEPT ![s] = st]
                    /\ Respond("PATCH status", tok, s, 200, FALSE, TRUE)

\* POST /api/sessions/:id/join runs in three steps, one per query it awaits;
\* other requests are served between them.
\* Step 1: verifyToken, then the query for the session with status 'active'.
JoinBegin(r, tok, s) ==
    /\ UNCHANGED <<relayVars, otherVars>>
    /\ Receive
    /\ slots[r].pc = "idle"
    /\ IF VerifyToken(tok).code # 0 THEN Rejected("POST join", tok, s)
       ELSE /\ UNCHANGED db
            /\ IF sessions[s] # "active"
               THEN /\ Respond("POST join", tok, s, 404, FALSE, TRUE)
                    /\ UNCHANGED slots
               ELSE /\ slots' = [slots EXCEPT ![r] =
                        [pc |-> "check", userId |-> VerifyToken(tok).userId,
                         sess |-> s]]
                    /\ UNCHANGED resp

\* Step 2: the query for an existing participant row.
JoinCheck(r) ==
    LET userId == slots[r].userId
        s == slots[r].sess
        tok == ClerkToken(userId.val)
    IN  /\ UNCHANGED <<relayVars, otherVars, db, served>>
        /\ slots[r].pc = "check"
        /\ IF PgError(userId)
           THEN /\ Respond("POST join", tok, s, 500, FALSE, TRUE)
                /\ slots' = [slots EXCEPT ![r] = IdleSlot]
           ELSE IF RowsOf(s, PgInteger(userId)) > 0
                THEN /\ Respond("POST join", tok, s, 400, FALSE, TRUE)
                     /\ slots' = [slots EXCEPT ![r] = IdleSlot]
           ELSE /\ slots' = [slots EXCEPT ![r].pc = "insert"]
                /\ UNCHANGED resp

\* Step 3: the INSERT and the answer.
JoinInsert(r) ==
    LET u == PgInteger(slots[r].userId)
        s == slots[r].sess
        tok == ClerkToken(u)
    IN  /\ UNCHANGED <<relayVars, otherVars, sessions, users, tokens, host, transcripts,
                       summaries, served>>
        /\ slots[r].pc = "insert"
        /\ slots' = [slots EXCEPT ![r] = IdleSlot]
        /\ IF InsertParticipant(s, u) # "ok"
           THEN /\ Respond("POST join", tok, s, 500, FALSE, TRUE)
                /\ UNCHANGED participants
           ELSE /\ participants' =
                    [participants EXCEPT ![<<s, u>>] = @ + 1]
                /\ Respond("POST join", tok, s, 200, FALSE, TRUE)

NextApi ==
    \/ \E u \in UserIds : Register(u)
    \/ \E u \in UserIds, ok \in BOOLEAN : Login(u, ok)
    \/ \E tok \in Tokens : CreateSession(tok)
    \/ \E tok \in Tokens, s \in SessionIds : GetSession(tok, s)
    \/ \E tok \in Tokens, s \in SessionIds : GetParticipants(tok, s)
    \/ \E tok \in Tokens, s \in SessionIds : GetTranscripts(tok, s)
    \/ \E tok \in Tokens, s \in SessionIds : PostTranscript(tok, s)
    \/ \E tok \in Tokens, s \in SessionIds : GetSummaries(tok, s)
    \/ \E tok \in Tokens, s \in SessionIds, ok \in BOOLEAN :
            PostSummary(tok, s, ok)
    \/ \E tok \in Tokens, s \in SessionIds : LeaveApi(tok, s)
    \/ \E tok \in Tokens, s \in SessionIds, st \in Statuses :
            UpdateStatus(tok, s, st)
    \/ \E r \in Slots, tok \in Tokens, s \in SessionIds : JoinBegin(r, tok, s)
    \/ \E r \in Slots : JoinCheck(r)
    \/ \E r \in Slots : JoinInsert(r)

\* The relay, the REST API at rest.
Spec == Init /\ [][Next]_allVars

\* The REST API with no socket connected.
\* The routes as they are written, each query reaching the database (which
\* pool a router holds is the subject of SpecLoad).
SpecApi == Init /\ [][NextApi]_allVars

\* =========================================================== module load
\* What `const { pool } = exported` binds: the property of the object that
\* module.exports = { app, server, io, pool } assigned, and undefined from the
\* empty object a module exports until then.
PoolOf(exported) == IF exported = "full" THEN "Pool" ELSE "undefined"

Top == stack[Len(stack)]
Pop == SubSeq(stack, 1, Len(stack) - 1)

\* node server.js: the module enters the cache with an empty exports object
\* and runs up to the routes: express, socket.io and the Pool are created.
StartServer ==
    /\ stack = <<>>
    /\ pc["server"] = 0
    /\ stack' = <<"server">>
    /\ pc' = [pc EXCEPT !["server"] = 1]
    /\ exportsOf' = [exportsOf EXCEPT !["server"] = "partial"]
    /\ UNCHANGED <<vars, apiVars, clientVars, bound>>

\* server.js, app.use('/api/...', require('./routes/...')): the router module
\* is not in the cache, so it is entered and run.
ServerRequire(r) ==
    /\ stack # <<>> /\ Top = "server"
    /\ pc["server"] \in DOMAIN RouteOrder
    /\ r = RouteOrder[pc["server"]]
    /\ exportsOf[r] = "none"
    /\ stack' = Append(stack, r)
    /\ pc' = [pc EXCEPT ![r] = 1]
    /\ exportsOf' = [exportsOf EXCEPT ![r] = "partial"]
    /\ UNCHANGED <<vars, apiVars, clientVars, bound>>

\* The router's `const { pool } = require('../server')`: server.js is in the
\* cache, so require returns the exports it has assigned so far.
RouteBind(r) ==
    /\ stack # <<>> /\ Top = r
    /\ pc[r] = 1
    /\ exportsOf["server"] # "none"
    /\ bound' = [bound EXCEPT ![r] = PoolOf(exportsOf["server"])]
    /\ pc' = [pc EXCEPT ![r] = 2]
    /\ UNCHANGED <<vars, apiVars, clientVars, stack, exportsOf>>

\* The router's routes are defined and module.exports = router ends it;
\* server.js mounts the router and goes on.
RouteExport(r) ==
    /\ stack # <<>> /\ Top = r
    /\ pc[r] = 2
    /\ exportsOf' = [exportsOf EXCEPT ![r] = "full"]
    /\ stack' = Pop
    /\ pc' = [pc EXCEPT ![r] = 3, !["server"] = @ + 1]
    /\ UNCHANGED <<vars, apiVars, clientVars, bound>>

\* The rest of server.js: io.on('connection'), server.listen and, last,
\* module.exports = { app, server, io, pool }.
ServerExport ==
    /\ stack = <<"server">>
    /\ pc["server"] = Len(RouteOrder) + 1
    /\ exportsOf' = [exportsOf EXCEPT !["server"] = "full"]
    /\ stack' = <<>>
    /\ pc' = [pc EXCEPT !["server"] = Len(RouteOrder) + 2]
    /\ UNCHANGED <<vars, apiVars, clientVars, bound>>

\* server.js has run to its end; requests are served from now on.
Listening == stack = <<>> /\ pc["server"] = Len(RouteOrder) + 2

RouterOf(route) ==
    IF route \in {"login", "register"} THEN "auth"
    ELSE IF route \in {"GET transcripts", "POST transcript", "GET summaries",
                       "POST summary"} THEN "transcripts"
    ELSE "sessions"

\* pool.query(...) with pool undefined throws a TypeError inside the
\* handler's try; its catch answers 500.
Thrown(route, tok, s) ==
    /\ Receive
    /\ Respond(route, tok, s, 500, FALSE, TRUE)
    /\ UNCHANGED <<relayVars, otherVars, db, slots>>

\* A request to a route of the loaded server: verifyToken (which uses no
\* pool) where the route is protected, then the handler, whose first
\* statement after reading the request is a pool.query.
Loaded(protected, route, tok, s, Handler) ==
    /\ Listening
    /\ IF (protected => VerifyToken(tok).code = 0)
            /\ bound[RouterOf(route)] # "Pool"
       THEN Thrown(route, tok, s)
       ELSE Handler

\* The later steps of a join follow a sessionQuery that returned, so they
\* never run in the loaded server.
NextLoad ==
    \/ StartServer
    \/ \E r \in Routers : ServerRequire(r)
    \/ \E r \in Routers : RouteBind(r)
    \/ \E r \in Routers : RouteExport(r)
    \/ ServerExport
    \/ \E u \in UserIds :
            Loaded(FALSE, "register", NoToken, 0, Register(u))
    \/ \E u \in UserIds, ok \in BOOLEAN :
            Loaded(FALSE, "login", NoToken, 0, Login(u, ok))
    \/ \E tok \in Tokens :
            Loaded(TRUE, "POST /", tok, 0, CreateSession(tok))
    \/ \E tok \in Tokens, s \in SessionIds :
            Loaded(TRUE, "GET /:id", tok, s, GetSession(tok, s))
    \/ \E tok \in Tokens, s \in SessionIds :
            Loaded(TRUE, "GET participants", tok, s, GetParticipants(tok, s))
    \/ \E tok \in Tokens, s \in SessionIds :
            Loaded(TRUE, "GET transcripts", tok, s, GetTranscripts(tok, s))
    \/ \E tok \in Tokens, s \in SessionIds :
            Loaded(TRUE, "POST transcript", tok, s, PostTranscript(tok, s))
    \/ \E tok \in Tokens, s \in SessionIds :
            Loaded(TRUE, "GET summaries", tok, s, GetSummaries(tok, s))
    \/ \E tok \in Tokens, s \in SessionIds, ok \in BOOLEAN :
            Loaded(TRUE, "POST summary", tok, s, PostSummary(tok, s, ok))
    \/ \E tok \in Tokens, s \in SessionIds :
            Loaded(TRUE, "POST leave", tok, s, LeaveApi(tok, s))
    \/ \E tok \in Tokens, s \in SessionIds, st \in Statuses :
            Loaded(TRUE, "PATCH status", tok, s, UpdateStatus(tok, s, st))
    \/ \E r \in Slots, tok \in Tokens, s \in SessionIds :
            Loaded(TRUE, "POST join", tok, s, JoinBegin(r, tok, s))

\* The backend from the start of the process: server.js is loaded, then
\* requests are served by the routers as they were bound.
SpecLoad == Init /\ [][NextLoad]_allVars
\* ================================================================ client
\* Dashboard.joinSession(sessionId), offered in the session list: the session
\* view opens with an empty ChatPanel (fetchChatHistory) and the socket emits
\* join-session, which the server handles.
ClientJoin(c, s) ==
    /\ alive
    /\ status[c] = "connected"
    /\ viewing[c] = 0
    /\ viewing' = [viewing EXCEPT ![c] = s]
    /\ panel' = [panel EXCEPT ![c] = <<>>]
    /\ rooms' = [rooms EXCEPT ![c] = SocketJoin(rooms[c], SessionRoom(s))]
    /\ last' = [NoEvent EXCEPT !.op = "join-session", !.conn = c,
                               !.room = SessionRoom(s),
                               !.already = SessionRoom(s) \in rooms[c]]
    /\ UNCHANGED <<apiVars, loadVars, alive, sessions, status, inbox, emitted>>

\* Dashboard.leaveSession(): the socket emits leave-session, for which the
\* server has no listener, and the session view with its ChatPanel closes.
ClientLeave(c) ==
    /\ alive
    /\ status[c] = "connected"
    /\ viewing[c] # 0
    /\ viewing' = [viewing EXCEPT ![c] = 0]
    /\ panel' = [panel EXCEPT ![c] = <<>>]
    /\ last' = [NoEvent EXCEPT !.op = "leave-session", !.conn = c,
                               !.room = SessionRoom(viewing[c])]
    /\ UNCHANGED <<apiVars, loadVars, alive, sessions, status, rooms, inbox,
                   emitted>>

\* ChatPanel.sendMessage: the message carries session.id, is appended to the
\* sender's own panel and emitted as chat-message, which the server relays.
SendMessage(c) ==
    /\ viewing[c] # 0
    /\ RelayFrom(c, "chat-message", RoomPayload(SessionRoom(viewing[c])), {c})

NextClient ==
    \/ \E c \in Conns : Connection(c)
    \/ \E c \in Conns : Disconnect(c)
    \/ \E c \in Conns, s \in SessionIds : ClientJoin(c, s)
    \/ \E c \in Conns : ClientLeave(c)
    \/ \E c \in Conns : SendMessage(c)

\* The relay driven by Dashboards instead of raw socket events.
SpecClient == Init /\ [][NextClient]_allVars
\* ================================================================ claims
LastPacket(d) == inbox[d][Len(inbox[d])]

\* Whether d's inbox ends with the event handled last.
GotLast(d) ==
    /\ Len(inbox[d]) > 0
    /\ LastPacket(d).name = last.op
    /\ LastPacket(d).from = last.conn
    /\ LastPacket(d).data.sessionId = last.room

\* C1 (as claimed): every socket a relayed event is delivered to shares a
\* room with the socket that emitted it.
C1_RoomIsolation ==
    last.op \in RelayNames =>
        \A d \in last.to : rooms[d] \cap rooms[last.conn] # {}

\* C2: no packet in a socket's inbox was emitted by that socket itself.
C2_NoSelfEcho ==
    \A c \in Conns : \A i \in DOMAIN inbox[c] : inbox[c][i].from # c

C2_Witness ==
    /\ last.op \in RelayNames
    /\ last.room \in rooms[last.conn]
    /\ last.to # {}

\* C3 (as claimed): when a member of a session room emits a relayed event,
\* whatever its payload, every other member of that room receives it.
C3_FanOutToSendersRoom ==
    (alive /\ last.op \in RelayNames) =>
        \A r \in rooms[last.conn] \cap SessionRooms :
            \A d \in Members(r) \ {last.conn} : GotLast(d)

\* C3 (amended): when a member of session room R emits a relayed event whose
\* payload is an object with sessionId R, every other member of R receives
\* that event, with that payload.
C3_FanOutToNamedRoom ==
    (last.op \in RelayNames /\ last.room \in rooms[last.conn]) =>
        \A d \in Members(last.room) \ {last.conn} :
            GotLast(d) /\ LastPacket(d).data = RoomPayload(last.room)

C3_Witness ==
    /\ last.op = "chat-message"
    /\ last.room \in SessionRooms
    /\ last.room \in rooms[last.conn]
    /\ \E d \in Conns \ {last.conn} : last.room \in rooms[d]

\* C4 (as claimed): after a leave-session for room R the socket is not a
\* member of R.
C4_LeaveRemoves ==
    last.op = "leave-session" => last.room \notin rooms[last.conn]

\* C5 (as claimed): a socket is in at most one session room.
C5_AtMostOneRoom ==
    \A c \in Conns : Cardinality(rooms[c] \cap SessionRooms) <= 1

\* C5 (amended): a join-session for room R adds R to the socket's rooms and
\* removes none; no other socket's rooms change.
C5_JoinKeepsRooms ==
    [][last'.op = "join-session" =>
        rooms' = [rooms EXCEPT ![last'.conn] = rooms[last'.conn] \cup {last'.room}]]_vars

C5_Witness ==
    /\ last.op = "join-session"
    /\ Cardinality(rooms[last.conn] \cap SessionRooms) = 2

\* C6: a socket that is not connected is in no room, and the event handled
\* last was delivered to connected sockets only.
C6_DisconnectedInNoRoom ==
    \A c \in Conns :
        status[c] # "connected" => (rooms[c] = {} /\ c \notin last.to)

\* A socket that received an event of a room, then disconnected, and an
\* event published to that room by another socket afterwards.
C6_Witness ==
    \E c \in Conns :
        /\ alive
        /\ status[c] = "disconnected"
        /\ last.op \in RelayNames
        /\ last.conn # c
        /\ last.room \in SessionRooms
        /\ \E i \in DOMAIN inbox[c] : inbox[c][i].data.sessionId = last.room

\* C7 (as claimed): a join-session for a session that has no row, or whose
\* status is not 'active', does not add the socket to that room.
C7_JoinRequiresActive ==
    (last.op = "join-session" /\ sessions[last.room[2]] # "active") =>
        last.room \notin rooms[last.conn]

\* C8: a join-session for a room the socket is already in changes no room's
\* membership, and a relayed event adds exactly one packet, the event, to
\* the inbox of every other member of the room it names.
C8_JoinIdempotent ==
    [][/\ (last'.op = "join-session" /\ last'.room \in rooms[last'.conn]) =>
            rooms' = rooms
       /\ (last'.op \in RelayNames /\ alive') =>
            \A d \in Members(last'.room) \ {last'.conn} :
                /\ Len(inbox'[d]) = Len(inbox[d]) + 1
                /\ SubSeq(inbox'[d], 1, Len(inbox[d])) = inbox[d]
                /\ inbox'[d][Len(inbox'[d])].name = last'.op]_vars

C8_Witness ==
    /\ last.op = "join-session"
    /\ last.already
    /\ Cardinality(Members(last.room)) = 1
    /\ Cardinality(rooms[last.conn] \cap SessionRooms) = 1

\* C9 (as claimed): a typing event emitted by a member of room R is
\* delivered as a typing event to the other members of R.
C9_TypingRelayed ==
    (last.op = "typing" /\ last.room \in rooms[last.conn]) =>
        \A d \in Members(last.room) \ {last.conn} : GotLast(d)

\* C10 (as claimed): no inbound event ends the server process or changes
\* the rooms of a socket other than the one that sent it.
C10_NoFatalEvent ==
    [][/\ alive'
       /\ \A d \in Conns \ {last'.conn} : rooms'[d] = rooms[d]]_vars

\* C11: in every inbox, two packets of the same sender for the same room
\* lie in the order in which the server handled them, which is the order
\* the sender's socket emitted them.
C11_PerSenderFifo ==
    \A d \in Conns : \A i, j \in DOMAIN inbox[d] :
        (/\ i < j
         /\ inbox[d][i].from = inbox[d][j].from
         /\ inbox[d][i].data.sessionId = inbox[d][j].data.sessionId) =>
            inbox[d][i].seq < inbox[d][j].seq

\* Two packets of one sender in d's inbox, with an event of d itself relayed
\* to that sender in between.
C11_Witness ==
    \E d \in Conns, c \in Conns :
        /\ c # d
        /\ Len(inbox[d]) >= 2
        /\ inbox[d][1].from = c /\ inbox[d][2].from = c
        /\ inbox[d][1].data.sessionId = inbox[d][2].data.sessionId
        /\ inbox[d][2].seq = inbox[d][1].seq + 2
        /\ \E k \in DOMAIN inbox[c] :
              inbox[c][k].from = d /\ inbox[c][k].seq = inbox[d][1].seq + 1

\* C12: every socket the event handled last was relayed to holds, as its
\* newest packet, the event under the name it came in with and with the
\* payload the sender emitted; every packet has a relayed event's name.
C12_Verbatim ==
    /\ last.op \in RelayNames =>
            \A d \in last.to :
                /\ Len(inbox[d]) > 0
                /\ LastPacket(d).name = last.op
                /\ LastPacket(d).data = last.data
    /\ \A d \in Conns : \A i \in DOMAIN inbox[d] :
            inbox[d][i].name \in RelayNames /\ inbox[d][i].data \in Payloads

C12_Witness ==
    /\ last.op = "summary-update"
    /\ last.to # {}
    /\ last.data.kind = "object"
    /\ last.data.text = "hi"

\* C14 (as claimed): when speech recognition on a client that has joined
\* session S yields a final transcript, the other sockets in room S receive
\* it as a caption-update of that client (an emit and its relay are one step).
C14_CaptionsDelivered ==
    last.op = "final-transcript" =>
        \A d \in Members(last.room) \ {last.conn} :
            /\ Len(inbox[d]) > 0
            /\ LastPacket(d).name = "caption-update"
            /\ LastPacket(d).from = last.conn
            /\ LastPacket(d).data.sessionId = last.room

\* The routes guarded by verifyToken.
ProtectedRoutes ==
    {"POST /", "GET /:id", "GET participants", "GET transcripts",
     "POST transcript", "GET summaries", "POST summary", "POST leave",
     "PATCH status", "POST join"}

\* The routes that read or write the data of one session.
SessionScoped ==
    {"GET /:id", "GET participants", "GET transcripts", "POST transcript",
     "GET summaries", "POST summary"}

\* C15: an endpoint that reads or writes the data of an existing session S
\* answers an authenticated requester who neither hosts S nor has a
\* participant row of S with an error, and returns none of S's data.
C15_SessionScopedAccess ==
    (/\ resp.route \in SessionScoped
     /\ resp.ran
     /\ Exists(resp.sess)
     /\ ~HasAccess(resp.sess, resp.id))
        => resp.code >= 400 /\ ~resp.data

\* C16: a participant row is added only to a session that is active, and a
\* join request for a session that does not exist or is not active is
\* answered 404 and leaves session_participants unchanged, whatever requests
\* run between the steps of a join.
C16_JoinOnlyActive ==
    [][/\ \A p \in Pairs :
            participants'[p] > participants[p] => sessions[p[1]] = "active"
       /\ (/\ served' = served + 1
           /\ slots' = slots
           /\ resp'.route = "POST join"
           /\ resp'.ran
           /\ sessions[resp'.sess] # "active")
            => resp'.code = 404 /\ participants' = participants]_allVars

\* C17: a join request of a registered user for an active session is answered
\* 'Successfully joined session' or 400 'Already joined this session', and the
\* user never has two rows for the session.
C17_JoinOnceElse400 ==
    /\ \A p \in Pairs : participants[p] <= 1
    /\ (/\ resp.route = "POST join"
        /\ resp.ran
        /\ resp.id \in users
        /\ sessions[resp.sess] = "active")
            => resp.code \in {200, 400}

\* C18: the host of a session who asks PATCH /:id/status is answered 200
\* (the status is changed); anyone else, and a request for a session that
\* does not exist, is answered 403.
C18_HostUpdatesStatus ==
    (resp.route = "PATCH status" /\ resp.ran)
        => IF Exists(resp.sess) /\ host[resp.sess] = resp.id
           THEN resp.code = 200
           ELSE resp.code = 403

\* C19: a request to a protected route without a token is answered 401, one
\* with a token that is no signed token at all is answered 400, and a request
\* that the middleware answers never reaches the handler and changes nothing.
C19_VerifiedBeforeHandler ==
    [][(served' = served + 1 /\ resp'.route \in ProtectedRoutes
            /\ (slots' = slots \/ resp' # resp))
        => /\ resp'.kind = "none" => resp'.code = 401 /\ ~resp'.ran
           /\ resp'.kind = "garbage" => resp'.code = 400 /\ ~resp'.ran
           /\ ~resp'.ran => resp'.code \in {400, 401} /\ UNCHANGED <<db, slots>>
           /\ resp'.ran => resp'.code \notin {401}]_allVars
C19_Witness ==
    /\ resp.route = "POST transcript"
    /\ resp.kind = "garbage"
    /\ resp.code = 400
    /\ ~resp.ran
    /\ served = MaxRequests

\* C20: a request to a protected route that presents the token returned by
\* /login or /register passes verifyToken, and the handler runs for the user
\* who logged in.
C20_LocalTokenAccepted ==
    (resp.route \in ProtectedRoutes /\ resp.kind = "local")
        => resp.ran /\ resp.id \in tokens

\* C21: whenever a request handler of a router has run, the pool that router
\* bound at module load is the Pool server.js created.
C21_HandlersHoldServerPool ==
    (resp.route # "none" /\ resp.ran) => bound[RouterOf(resp.route)] = "Pool"

\* C22: while a client views session S, every message in its chat panel
\* carries sessionId S.
C22_PanelShowsViewedSession ==
    \A c \in Conns :
        viewing[c] # 0 =>
            \A i \in DOMAIN panel[c] : panel[c][i] = SessionRoom(viewing[c])
====
